---------------------------- MODULE Spec2Model ----------------------------
(***************************************************************************)
(* A model of the Assuan client of assuan-rs (src/assuan/src/lib.rs).      *)
(*                                                                         *)
(* Bytes are integers (their ASCII codes); a line, a message, a request    *)
(* are sequences of bytes.  The read side of the channel is a sequence of  *)
(* read events, one per BufRead::read_line call: either the bytes of one   *)
(* line, its trailing line feed included, or a transport error.  A read    *)
(* past the last event is an end of file (read_line returns Ok(0) and      *)
(* leaves the line empty): a peer that stays silent without closing makes  *)
(* the call block for ever, which is no step of the model.                 *)
(***************************************************************************)
EXTENDS Integers, Sequences, FiniteSets, TLC

VARIABLES
    state,    \* "Init" | "Ready" | "Failed" | "Closed": the Session's lifecycle
    ctor,     \* "none" | "new" | "from_child": the constructor that was used
    inp,      \* read events the peer has sent and the client has not read yet
    out,      \* every byte the client has handed to the writer so far
    res,      \* the value the caller received from the last operation
    took,     \* the read events consumed by the last parse loop
    hitEof,   \* the last parse loop read past the end of the stream
    req,      \* the bytes written by the last call
    eof,      \* the peer has closed its side (an end of file was read)
    ncalls,   \* number of exec/option calls made on the Session
    hs,       \* what the handshake of construction read
    lastCmd,  \* name and arguments of the last exec
    reply,    \* the peer's reply to the last request
    polite,   \* the greeting and every reply were well formed, no write failed
    prev,     \* the value the caller received from the call before the last
    wout,     \* the outcome of the writer in the last call
    nreq,     \* number of requests written whole and flushed
    owners,   \* for every unread event of inp, the request it answers (0: greeting)
    settled   \* the requests whose terminal line (OK or ERR) has been consumed

vars == <<state, ctor, inp, out, res, took, hitEof, req, eof, ncalls, hs,
          lastCmd, reply, polite, prev, wout, nreq, owners, settled>>

---------------------------------------------------------------------------
(* Bounds of the model. *)

\* exec/option calls per Session
MaxCalls == 2
\* read events in one reply of the parser specification
MaxLines == 3
\* arguments of one exec in the encoder specification
MaxArgs == 2
\* bytes of all the arguments of one exec together
MaxBytes == 3

---------------------------------------------------------------------------
(* Byte strings. *)

\* str.starts_with(prefix)
starts_with(s, p) == Len(s) >= Len(p) /\ SubSeq(s, 1, Len(p)) = p

\* &s[i..]
slice_from(s, i) == SubSeq(s, i + 1, Len(s))

\* str.trim_end_matches("\n"): every trailing line feed is removed
RECURSIVE trim_end_matches(_)
trim_end_matches(s) ==
    IF s # <<>> /\ s[Len(s)] = 10 THEN trim_end_matches(SubSeq(s, 1, Len(s) - 1))
    ELSE s

\* all sequences over S of length at most n
RECURSIVE SeqsUpTo(_, _)
SeqsUpTo(S, n) ==
    IF n = 0 THEN {<<>>}
    ELSE LET T == SeqsUpTo(S, n - 1)
         IN  T \cup {Append(t, x) : t \in {u \in T : Len(u) = n - 1}, x \in S}

\* the concatenation of a sequence of sequences
RECURSIVE Flatten(_)
Flatten(ss) == IF ss = <<>> THEN <<>> ELSE Head(ss) \o Flatten(Tail(ss))

\* number of occurrences of byte b in s
RECURSIVE Count(_, _)
Count(s, b) ==
    IF s = <<>> THEN 0 ELSE (IF Head(s) = b THEN 1 ELSE 0) + Count(Tail(s), b)

---------------------------------------------------------------------------
(* Results.  CallResult is (msg, data); AssuanError is IoError(err) or      *)
(* Other(desc).  The field at is not part of the value the caller gets: it  *)
(* records which return statement produced the value.                       *)

NoResult == [kind |-> "None", msg |-> <<>>, data |-> <<>>, at |-> "none"]

\* Ok((msg, data))
OkResult(msg, data) == [kind |-> "Ok", msg |-> msg, data |-> data, at |-> "OK"]

\* Err(AssuanError::Other(desc))
OtherError(desc, at) == [kind |-> "Other", msg |-> desc, data |-> <<>>, at |-> at]

\* Err(AssuanError::IoError(err))
IoError(at) == [kind |-> "IoError", msg |-> <<>>, data |-> <<>>, at |-> at]

\* Ok(())
UnitResult == [kind |-> "Ok", msg |-> <<>>, data |-> <<>>, at |-> "unit"]

\* "Received unsupported INQUIRE message"
MsgInquire ==
    <<82, 101, 99, 101, 105, 118, 101, 100, 32, 117, 110, 115, 117, 112, 112,
      111, 114, 116, 101, 100, 32, 73, 78, 81, 85, 73, 82, 69, 32, 109, 101,
      115, 115, 97, 103, 101>>

\* "Unsupported Assuan response"
MsgUnsupported ==
    <<85, 110, 115, 117, 112, 112, 111, 114, 116, 101, 100, 32, 65, 115, 115,
      117, 97, 110, 32, 114, 101, 115, 112, 111, 110, 115, 101>>

\* "Failed to setup stdin/out"
MsgSetup ==
    <<70, 97, 105, 108, 101, 100, 32, 116, 111, 32, 115, 101, 116, 117, 112,
      32, 115, 116, 100, 105, 110, 47, 111, 117, 116>>

---------------------------------------------------------------------------
(* The command encoder: exec's loop over the arguments. *)

\* the encode set with the space left out
ARG_ENCODE_SET_no_space == {13, 10, 37}

\* the encode set with '%' left out
ARG_ENCODE_SET_no_percent == {13, 10, 32}

\* [b'\r', b'\n', b'%', b' ']
ARG_ENCODE_SET == {13, 10, 37, 32}

\* one upper-case hexadecimal digit, as a byte
hex_digit(d) == IF d < 10 THEN 48 + d ELSE 55 + d

\* percent_encode_byte: '%' and the two hexadecimal digits of the byte
percent_encode_byte(b) == <<37, hex_digit(b \div 16), hex_digit(b % 16)>>

\* percent_encode(arg, ARG_ENCODE_SET), its chunks pushed one after the other
RECURSIVE percent_encode(_)
percent_encode(arg) ==
    IF arg = <<>> THEN <<>>
    ELSE (IF Head(arg) \in ARG_ENCODE_SET THEN percent_encode_byte(Head(arg))
          ELSE <<Head(arg)>>) \o percent_encode(Tail(arg))

\* for arg in args { cmd.push(' '); cmd.push_str(percent_encode(arg)) }
RECURSIVE push_args(_, _)
push_args(cmd, args) ==
    IF args = <<>> THEN cmd
    ELSE push_args(cmd \o <<32>> \o percent_encode(Head(args)), Tail(args))

\* the command line exec hands to call
exec_cmd(name, args) == push_args(name, args)

---------------------------------------------------------------------------
(* The response parser: wait_response. *)

\* the chain with INQUIRE lines skipped like status lines
classify_inquire_skipped(resp) ==
    CASE starts_with(resp, <<79, 75>>) -> "OK"
      [] starts_with(resp, <<69, 82, 82, 32>>) -> "ERR"
      [] starts_with(resp, <<68, 32>>) -> "D"
      [] starts_with(resp, <<83, 32>>) -> "S"
      [] starts_with(resp, <<73, 78, 81, 85, 73, 82, 69>>) -> "S"
      [] starts_with(resp, <<35>>) -> "#"
      [] OTHER -> "other"

\* the chain without its branch for comments: a # line is unsupported
classify_no_comment(resp) ==
    CASE starts_with(resp, <<79, 75>>) -> "OK"
      [] starts_with(resp, <<69, 82, 82, 32>>) -> "ERR"
      [] starts_with(resp, <<68, 32>>) -> "D"
      [] starts_with(resp, <<83, 32>>) -> "S"
      [] starts_with(resp, <<73, 78, 81, 85, 73, 82, 69>>) -> "INQUIRE"
      [] OTHER -> "other"

\* the chain with the empty line of an end of file taken for the end of the
\* response
classify_eof_ok(resp) ==
    CASE resp = <<>> -> "OK"
      [] starts_with(resp, <<79, 75>>) -> "OK"
      [] starts_with(resp, <<69, 82, 82, 32>>) -> "ERR"
      [] starts_with(resp, <<68, 32>>) -> "D"
      [] starts_with(resp, <<83, 32>>) -> "S"
      [] starts_with(resp, <<73, 78, 81, 85, 73, 82, 69>>) -> "INQUIRE"
      [] starts_with(resp, <<35>>) -> "#"
      [] OTHER -> "other"

\* the if / else if chain over the prefixes, in the order of the code
classify(resp) ==
    CASE starts_with(resp, <<79, 75>>) -> "OK"
      [] starts_with(resp, <<69, 82, 82, 32>>) -> "ERR"
      [] starts_with(resp, <<68, 32>>) -> "D"
      [] starts_with(resp, <<83, 32>>) -> "S"
      [] starts_with(resp, <<73, 78, 81, 85, 73, 82, 69>>) -> "INQUIRE"
      [] starts_with(resp, <<35>>) -> "#"
      [] OTHER -> "other"

\* the message with one more byte cut off, the space after the tag
ok_msg_trimmed(resp) == slice_from(resp, 3)

\* msg = resp[2..]
ok_msg(resp) == slice_from(resp, 2)

\* msg = resp[3..]
err_msg(resp) == slice_from(resp, 3)

\* the chunk put in front of the data instead of behind it
push_str_front(data, resp) == slice_from(resp, 2) \o data

\* data.push_str(&resp[2..])
push_str(data, resp) == data \o slice_from(resp, 2)

\* a read error that hands the data accumulated so far on with the error
read_failed_with_data(data) ==
    [kind |-> "IoError", msg |-> <<>>, data |-> data, at |-> "read"]

\* Err(err) => return Err(AssuanError::IoError(err)): the data accumulated
\* so far is a local of wait_response and is lost
read_failed(data) == IoError("read")

\* The loop of wait_response over the unread events r, with the data
\* accumulated so far and the events consumed so far.
RECURSIVE wait_loop(_, _, _)
wait_loop(r, data, tk) ==
    IF r # <<>> /\ Head(r).err
    THEN [ret |-> read_failed(data), rest |-> Tail(r),
          took |-> Append(tk, Head(r)), eof |-> FALSE]
    ELSE LET line == IF r = <<>> THEN <<>> ELSE Head(r).line
             rest == IF r = <<>> THEN <<>> ELSE Tail(r)
             tk2  == IF r = <<>> THEN tk ELSE Append(tk, Head(r))
             resp == trim_end_matches(line)
             c    == classify(resp)
             done(v) == [ret |-> v, rest |-> rest, took |-> tk2, eof |-> (r = <<>>)]
         IN  CASE c = "OK" -> done(OkResult(ok_msg(resp), data))
               [] c = "ERR" -> done(OtherError(err_msg(resp), "ERR"))
               [] c = "D" -> wait_loop(rest, push_str(data, resp), tk2)
               [] c = "S" -> wait_loop(rest, data, tk2)
               [] c = "INQUIRE" -> done(OtherError(MsgInquire, "INQUIRE"))
               [] c = "#" -> wait_loop(rest, data, tk2)
               [] OTHER -> done(OtherError(MsgUnsupported, "other"))

\* a parse loop whose accumulator does not start empty
wait_response_stale(r) == wait_loop(r, <<120>>, <<>>)

\* wait_response: data starts empty
wait_response(r) == wait_loop(r, <<>>, <<>>)

\* a call that does not look at the result of flush and reads all the same
call_flush_ignored(w, r, command, wres, rep) ==
    CASE wres = "write" ->
            [ret |-> IoError("write"), w |-> w, r |-> r, took |-> <<>>,
             eof |-> FALSE, req |-> <<>>, rep |-> <<>>]
      [] wres = "newline" ->
            [ret |-> IoError("newline"), w |-> w \o command, r |-> r,
             took |-> <<>>, eof |-> FALSE, req |-> command, rep |-> <<>>]
      [] OTHER ->
            LET p == wait_response(r \o rep)
            IN  [ret |-> p.ret, w |-> w \o command \o <<10>>, r |-> p.rest,
                 took |-> p.took, eof |-> p.eof, req |-> command \o <<10>>,
                 rep |-> rep]

\* call: write the command, write the line feed, flush, then wait_response.
\* w is what was written so far, r the unread events, wres the outcome of the
\* writer ("ok", or the step that fails), rep what the peer sends back once
\* the request has reached it.
call(w, r, command, wres, rep) ==
    CASE wres = "write" ->
            [ret |-> IoError("write"), w |-> w, r |-> r, took |-> <<>>,
             eof |-> FALSE, req |-> <<>>, rep |-> <<>>]
      [] wres = "newline" ->
            [ret |-> IoError("newline"), w |-> w \o command, r |-> r,
             took |-> <<>>, eof |-> FALSE, req |-> command, rep |-> <<>>]
      [] wres = "flush" ->
            [ret |-> IoError("flush"), w |-> w \o command \o <<10>>, r |-> r,
             took |-> <<>>, eof |-> FALSE, req |-> command \o <<10>>,
             rep |-> <<>>]
      [] OTHER ->
            LET p == wait_response(r \o rep)
            IN  [ret |-> p.ret, w |-> w \o command \o <<10>>, r |-> p.rest,
                 took |-> p.took, eof |-> p.eof, req |-> command \o <<10>>,
                 rep |-> rep]

---------------------------------------------------------------------------
(* What the peer can send. *)

\* one line as read_line returns it, its line feed included
Line(bytes) == [err |-> FALSE, line |-> bytes \o <<10>>]

\* a read_line that returns Err
ReadError == [err |-> TRUE, line |-> <<>>]

\* "OK"
LnOK == Line(<<79, 75>>)
\* "OK a"
LnOKa == Line(<<79, 75, 32, 97>>)
\* "ERR a"
LnERRa == Line(<<69, 82, 82, 32, 97>>)
\* "ERR 67108922 Invalid passphrase"
LnERRpass == Line(<<69, 82, 82, 32, 54, 55, 49, 48, 56, 57, 50, 50, 32, 73, 110, 118, 97, 108, 105, 100, 32, 112, 97, 115, 115, 112, 104, 114, 97, 115, 101>>)
\* "ERR" with nothing after it
LnERRbare == Line(<<69, 82, 82>>)
\* "D a"
LnDa == Line(<<68, 32, 97>>)
\* "D b"
LnDb == Line(<<68, 32, 98>>)
\* "S a"
LnS == Line(<<83, 32, 97>>)
\* "#c"
LnHash == Line(<<35, 99>>)
\* "INQUIRE CIPHERTEXT"
LnINQ == Line(<<73, 78, 81, 85, 73, 82, 69, 32, 67, 73, 80, 72, 69, 82, 84, 69, 88, 84>>)
\* "X": no known prefix
LnX == Line(<<88>>)

\* the read events of the parser specification
ParsePool ==
    {LnOK, LnOKa, LnERRa, LnERRpass, LnERRbare, LnDa, LnDb, LnS, LnHash,
     LnINQ, LnX, ReadError}

\* the replies of the parser specification
ParseReplies == SeqsUpTo(ParsePool, MaxLines)

\* resp of a read event
RespOf(e) == trim_end_matches(e.line)

\* a reply of zero or more D, S and # lines and then one OK or ERR line
WellFormedReply(rep) ==
    /\ rep # <<>>
    /\ \A i \in 1..Len(rep) : ~rep[i].err
    /\ classify(RespOf(rep[Len(rep)])) \in {"OK", "ERR"}
    /\ \A i \in 1..(Len(rep) - 1) : classify(RespOf(rep[i])) \in {"D", "S", "#"}

\* the replies (and greetings) of the lifecycle specification: well formed
\* ones, and a peer that misbehaves, fails or closes
LifeReplies ==
    {<<LnOK>>, <<LnDa, LnOKa>>, <<LnERRa>>, <<LnS, LnERRa>>,
     <<LnINQ>>, <<LnX>>, <<ReadError>>, <<>>, <<LnOK, LnOK>>}

\* the replies to BYE
ByeReplies == {<<LnOK>>, <<LnERRa>>, <<LnX>>, <<ReadError>>, <<>>}

\* outcomes of the writer: all three steps succeed, or one of them fails
WriteOutcomes == {"ok", "write", "newline", "flush"}

\* "BYE"
CmdBye == <<66, 89, 69>>
\* "OPTION"
CmdOption == <<79, 80, 84, 73, 79, 78>>
\* "GET_PASSPHRASE"
CmdGetPassphrase == <<71, 69, 84, 95, 80, 65, 83, 83, 80, 72, 82, 65, 83, 69>>
\* "A B": a name with a space in it
CmdBadName == <<65, 32, 66>>

\* argument bytes: CR, LF, '%', ' ', '2', '0'
ArgBytes == {13, 10, 37, 32, 50, 48}

\* the lists of n byte strings whose concatenation is s
RECURSIVE Splits(_, _)
Splits(s, n) ==
    IF n = 0 THEN (IF s = <<>> THEN {<<>>} ELSE {})
    ELSE UNION {{<<SubSeq(s, 1, k)>> \o t : t \in Splits(SubSeq(s, k + 1, Len(s)), n - 1)}
                : k \in 0..Len(s)}

\* the argument lists of the encoder specification
ArgLists ==
    UNION {Splits(s, n) : s \in SeqsUpTo(ArgBytes, MaxBytes), n \in 0..MaxArgs}

\* the argument lists of the lifecycle specification
LifeArgs == {<<>>, <<<<97>>, <<32>>>>}

---------------------------------------------------------------------------
(* The Session: construction, exec, option, teardown. *)

\* Ok(client) of a constructor
Constructed(by) == [kind |-> "Ok", msg |-> <<>>, data |-> <<>>, at |-> by]

\* a constructor that reads nothing, as from_child does
handshake_skipped(r) ==
    [ret |-> OkResult(<<>>, <<>>), rest |-> r, took |-> <<>>, eof |-> FALSE]

\* p.wait_response()? of new: the handshake
handshake(r) == wait_response(r)

\* drop: self.call("BYE")
drop_call(w, r, wres, rep) == call(w, r, CmdBye, wres, rep)

\* a teardown that hands the error of call("BYE") on
drop_result_propagated(held, r) == IF r.kind = "Ok" THEN held ELSE r

\* drop: `let _ =` discards the result of the call; held is what the caller
\* holds, r what call("BYE") returned
drop_result(held, r) == held

\* exec(...).map(|_| ()) of option
map_unit(r) == IF r.kind = "Ok" THEN UnitResult ELSE r

\* the read event is an OK or ERR line
IsTerminal(e) == ~e.err /\ classify(RespOf(e)) \in {"OK", "ERR"}

\* what is left of s once its first k elements are consumed
DropFirst(s, k) == SubSeq(s, k + 1, Len(s))

\* The book-keeping of one call c made with writer outcome wres, own being
\* the owners of the unread events before it: a request written whole and
\* flushed gets the next number, the peer's reply answers it, and a request
\* is settled once a terminal line that answers it has been consumed.
Booked(c, wres, own) ==
    LET n2   == IF wres = "ok" THEN nreq + 1 ELSE nreq
        own2 == own \o [i \in 1..Len(c.rep) |-> n2]
        k    == Len(c.took)
    IN  /\ wout' = wres
        /\ nreq' = n2
        /\ owners' = DropFirst(own2, k)
        /\ settled' = settled \cup
              {own2[i] : i \in {j \in 1..k : IsTerminal(c.took[j]) /\ own2[j] > 0}}

\* The state before any constructor has run: the peer has sent its
\* unsolicited greeting.
InitWith(greetings) ==
    /\ state = "Init"
    /\ ctor = "none"
    /\ inp \in greetings
    /\ out = <<>>
    /\ res = NoResult
    /\ took = <<>>
    /\ hitEof = FALSE
    /\ req = <<>>
    /\ eof = FALSE
    /\ ncalls = 0
    /\ hs = [done |-> FALSE, ret |-> NoResult, took |-> <<>>]
    /\ lastCmd = [name |-> <<>>, args |-> <<>>]
    /\ reply = <<>>
    /\ polite = WellFormedReply(inp)
    /\ prev = NoResult
    /\ wout = "none"
    /\ nreq = 0
    /\ owners = [i \in 1..Len(inp) |-> 0]
    /\ settled = {}

\* AssuanClient::new(r, w).  When the handshake fails, `?` returns the error
\* and the client p, a local of new, is dropped on the way out: drop runs
\* call("BYE") with the writer outcome wres and the peer's answer rep.
New(wres, rep) ==
    /\ state = "Init"
    /\ LET p == handshake(inp)
           d == drop_call(out, p.rest, wres, IF p.eof THEN <<>> ELSE rep)
       IN  IF p.ret.kind = "Ok"
           THEN /\ wres = "ok"
                /\ rep = <<>>
                /\ state' = "Ready"
                /\ res' = Constructed("new")
                /\ inp' = p.rest
                /\ took' = p.took
                /\ hitEof' = p.eof
                /\ eof' = p.eof
                /\ hs' = [done |-> TRUE, ret |-> p.ret, took |-> p.took]
                /\ owners' = DropFirst(owners, Len(p.took))
                /\ UNCHANGED <<out, req, reply, wout, nreq, settled>>
           ELSE /\ state' = "Failed"
                /\ res' = drop_result(p.ret, d.ret)
                /\ inp' = d.r
                /\ out' = d.w
                /\ took' = d.took
                /\ hitEof' = d.eof
                /\ eof' = (p.eof \/ d.eof)
                /\ req' = d.req
                /\ reply' = d.rep
                /\ Booked(d, wres, DropFirst(owners, Len(p.took)))
                /\ hs' = [done |-> TRUE, ret |-> p.ret, took |-> p.took]
    /\ ctor' = "new"
    /\ UNCHANGED <<ncalls, lastCmd, polite, prev>>

\* AssuanClient::from_child(c): the client is built from the child's pipes
\* and returned; nothing is read.  piped: both c.stdin and c.stdout are Some.
FromChild(piped) ==
    /\ state = "Init"
    /\ ctor' = "from_child"
    /\ state' = IF piped THEN "Ready" ELSE "Failed"
    /\ res' = IF piped THEN Constructed("from_child")
              ELSE OtherError(MsgSetup, "setup")
    /\ UNCHANGED <<inp, out, took, hitEof, req, eof, ncalls, hs, lastCmd,
                   reply, polite, prev, wout, nreq, owners, settled>>

\* The state after c == self.call(command), v being what the caller
\* receives.
Called(c, v) ==
    /\ res' = v
    /\ inp' = c.r
    /\ out' = c.w
    /\ took' = c.took
    /\ hitEof' = c.eof
    /\ eof' = (eof \/ c.eof)
    /\ req' = c.req
    /\ reply' = c.rep

\* the result of exec, as it is
as_is(r) == r

\* client.exec(name, args)
Exec(name, args, wres, rep) ==
    /\ state = "Ready"
    /\ ncalls < MaxCalls
    /\ eof => rep = <<>>
    /\ wres # "ok" => rep = <<>>
    /\ LET c == call(out, inp, exec_cmd(name, args), wres, rep)
       IN  Called(c, as_is(c.ret)) /\ Booked(c, wres, owners)
    /\ ncalls' = ncalls + 1
    /\ lastCmd' = [name |-> name, args |-> args]
    /\ polite' = (polite /\ wres = "ok" /\ WellFormedReply(rep))
    /\ prev' = res
    /\ UNCHANGED <<state, ctor, hs>>

\* client.option(name, val)
Option(name, val, wres, rep) ==
    /\ state = "Ready"
    /\ ncalls < MaxCalls
    /\ eof => rep = <<>>
    /\ wres # "ok" => rep = <<>>
    /\ LET c == call(out, inp, exec_cmd(CmdOption, <<name, val>>), wres, rep)
       IN  Called(c, map_unit(c.ret)) /\ Booked(c, wres, owners)
    /\ ncalls' = ncalls + 1
    /\ lastCmd' = [name |-> CmdOption, args |-> <<name, val>>]
    /\ polite' = (polite /\ wres = "ok" /\ WellFormedReply(rep))
    /\ prev' = res
    /\ UNCHANGED <<state, ctor, hs>>

\* The Session goes out of scope: Drop::drop.
Drop(wres, rep) ==
    /\ state = "Ready"
    /\ eof => rep = <<>>
    /\ wres # "ok" => rep = <<>>
    /\ LET c == drop_call(out, inp, wres, rep)
       IN  Called(c, drop_result(res, c.ret)) /\ Booked(c, wres, owners)
    /\ state' = "Closed"
    /\ UNCHANGED <<ctor, ncalls, hs, lastCmd, polite, prev>>

---------------------------------------------------------------------------
(* The gpg-agent facade: GpgAgent::get_passphrase.                          *)

\* Ok(Vec<u8>) of get_passphrase
PassResult(bytes) == [kind |-> "Ok", msg |-> <<>>, data |-> bytes, at |-> "from_hex"]
\* Err(GpgAgentError::InvalidPassword)
InvalidPassword == [kind |-> "InvalidPassword", msg |-> <<>>, data |-> <<>>, at |-> "from_hex"]
\* impl From<AssuanError> for GpgAgentError: GpgAgentError::Protocol(err)
Protocol(err) ==
    [kind |-> IF err.kind = "IoError" THEN "Protocol(IoError)" ELSE "Protocol(Other)",
     msg |-> err.msg, data |-> <<>>, at |-> err.at]

\* the loop of FromHex::from_hex for str: buf is a u8, shifted left by four
\* for every byte and back for white space; a byte is pushed for every second
\* digit; any other character, or a digit left over, is an error
RECURSIVE hex_loop(_, _, _, _)
hex_loop(s, bytes, buf, modulus) ==
    IF s = <<>>
    THEN IF modulus = 0 THEN [ok |-> TRUE, bytes |-> bytes]
                        ELSE [ok |-> FALSE, bytes |-> <<>>]
    ELSE LET byte == Head(s)
             sh   == (buf * 16) % 256
             nib  == CASE byte \in 65..70  -> byte - 65 + 10
                      [] byte \in 97..102 -> byte - 97 + 10
                      [] byte \in 48..57  -> byte - 48
                      [] OTHER -> -1
             buf2 == sh + nib
         IN  IF byte \in {32, 13, 10, 9}
             THEN hex_loop(Tail(s), bytes, sh \div 16, modulus)
             ELSE IF nib = -1
             THEN [ok |-> FALSE, bytes |-> <<>>]
             ELSE IF modulus = 1
             THEN hex_loop(Tail(s), Append(bytes, buf2), buf2, 0)
             ELSE hex_loop(Tail(s), bytes, buf2, 1)

FromHex(s) == hex_loop(s, <<>>, 0, 0)

\* the data handed over in place of the message
passphrase_field_data(r) == r.data

\* .map(|res| res.0): the first field of the CallResult, the message
passphrase_field(r) == r.msg

\* the body of get_passphrase after exec
get_passphrase(ret) ==
    IF ret.kind # "Ok" THEN Protocol(ret)
    ELSE LET pass == FromHex(passphrase_field(ret))
         IN  IF pass.ok THEN PassResult(pass.bytes) ELSE InvalidPassword

\* agent.get_passphrase(cache_id, error_message, prompt, description)
GetPassphrase(cache_id, error_message, prompt, description, wres, rep) ==
    /\ state = "Ready"
    /\ ncalls < MaxCalls
    /\ eof => rep = <<>>
    /\ wres # "ok" => rep = <<>>
    /\ LET a == <<cache_id, error_message, prompt, description>>
           c == call(out, inp, exec_cmd(CmdGetPassphrase, a), wres, rep)
       IN  /\ Called(c, get_passphrase(c.ret)) /\ Booked(c, wres, owners)
           /\ lastCmd' = [name |-> CmdGetPassphrase, args |-> a]
    /\ ncalls' = ncalls + 1
    /\ polite' = (polite /\ wres = "ok" /\ WellFormedReply(rep))
    /\ prev' = res
    /\ UNCHANGED <<state, ctor, hs>>

---------------------------------------------------------------------------
(* The replies of a gpg-agent to GET_PASSPHRASE.                            *)

\* "D 68656c6c6f": hello
LnDhello == Line(<<68, 32, 54, 56, 54, 53, 54, 99, 54, 99, 54, 102>>)
\* "D 6869": hi
LnDhi == Line(<<68, 32, 54, 56, 54, 57>>)
\* "OK 6869"
LnOKhi == Line(<<79, 75, 32, 54, 56, 54, 57>>)
\* "OK 68 4F": a space between the digits, an upper case digit
LnOKsp == Line(<<79, 75, 32, 54, 56, 32, 52, 70>>)
\* "OK 686": a digit left over
LnOKodd == Line(<<79, 75, 32, 54, 56, 54>>)
\* "OK 6g": not a digit
LnOKbad == Line(<<79, 75, 32, 54, 103>>)

AgentPool ==
    {LnDhello, LnDhi, LnOK, LnOKhi, LnOKsp, LnOKodd, LnOKbad, LnERRa, LnS, ReadError}

AgentReplies == SeqsUpTo(AgentPool, MaxLines)

---------------------------------------------------------------------------
(* The lifecycle specification: both constructors, calls, teardown. *)

Init == InitWith(LifeReplies)

DoNew == \E wres \in WriteOutcomes, rep \in ByeReplies \cup {<<>>} : New(wres, rep)

DoFromChild == \E piped \in BOOLEAN : FromChild(piped)

DoExec ==
    \E name \in {CmdGetPassphrase}, args \in LifeArgs,
       wres \in WriteOutcomes, rep \in LifeReplies :
        Exec(name, args, wres, rep)

DoOption ==
    \E wres \in WriteOutcomes, rep \in LifeReplies :
        Option(<<116>>, <<47>>, wres, rep)

DoDrop == \E wres \in WriteOutcomes, rep \in ByeReplies : Drop(wres, rep)

Next == DoNew \/ DoFromChild \/ DoExec \/ DoOption \/ DoDrop

Spec == Init /\ [][Next]_vars

---------------------------------------------------------------------------
(* The parser specification: a Session built by new on the greeting "OK",   *)
(* one exec, every reply of at most MaxLines read events.                   *)

InitParse == InitWith({<<LnOK>>})

ParseNew == New("ok", <<>>)

ParseExec ==
    /\ state = "Ready"
    /\ ncalls = 0
    /\ \E rep \in ParseReplies : Exec(CmdGetPassphrase, <<>>, "ok", rep)

ParseDrop == \E rep \in {<<LnOK>>, <<>>} : Drop("ok", rep)

NextParse == ParseNew \/ ParseExec \/ ParseDrop

SpecParse == InitParse /\ [][NextParse]_vars

---------------------------------------------------------------------------
(* The facade specification: a Session built by new on the greeting "OK",   *)
(* one get_passphrase with the arguments of examples/askpass.rs, every      *)
(* reply of at most MaxLines read events.                                   *)

InitAgent == InitWith({<<LnOK>>})

AgentNew == New("ok", <<>>)

AgentGetPassphrase ==
    /\ state = "Ready"
    /\ ncalls = 0
    /\ \E wres \in WriteOutcomes :
         \E rep \in IF wres = "ok" THEN AgentReplies ELSE {<<>>} :
           GetPassphrase(<<103, 112, 103, 97, 103, 101, 110, 116, 58, 114, 117, 115, 116, 58, 101, 120, 97, 109, 112, 108, 101>>, <<111, 112, 101, 110, 105, 110, 103, 32, 118, 97, 117, 108, 116>>,
                         <<112, 114, 111, 109, 112, 116>>, <<116, 104, 101, 32, 118, 97, 117, 108, 116>>, wres, rep)

AgentDrop == \E rep \in {<<LnOK>>, <<>>} : Drop("ok", rep)

NextAgent == AgentNew \/ AgentGetPassphrase \/ AgentDrop

SpecAgent == InitAgent /\ [][NextAgent]_vars

---------------------------------------------------------------------------
(* The encoder specification: one exec of every name and argument list.     *)

InitEnc == InitWith({<<LnOK>>})

EncNew == New("ok", <<>>)

EncExec ==
    /\ state = "Ready"
    /\ ncalls = 0
    /\ \E name \in {CmdOption, CmdBadName}, args \in ArgLists :
         Exec(name, args, "ok", <<LnOK>>)

EncDrop == Drop("ok", <<LnOK>>)

NextEnc == EncNew \/ EncExec \/ EncDrop

SpecEnc == InitEnc /\ [][NextEnc]_vars

---------------------------------------------------------------------------
(* What the properties are stated with.  Lines are told apart by the bytes  *)
(* the peer sent, not by the parser's own classification.                   *)

\* the read event is a line that starts with the tag
HasTag(e, tag) == ~e.err /\ starts_with(e.line, tag)

\* "OK"
TagOK == <<79, 75>>
\* "ERR "
TagERR == <<69, 82, 82, 32>>
\* "D "
TagD == <<68, 32>>
\* "S "
TagS == <<83, 32>>
\* "#"
TagHash == <<35>>
\* "INQUIRE"
TagINQUIRE == <<73, 78, 81, 85, 73, 82, 69>>

\* the bytes of the line after its n-byte tag, the line feed left out
PayloadOf(e, n) == SubSeq(e.line, n + 1, Len(e.line) - 1)

\* a D, S or # line
IsInterim(e) == HasTag(e, TagD) \/ HasTag(e, TagS) \/ HasTag(e, TagHash)

\* the chunks of the D lines of rep, one after the other
RECURSIVE ChunksOf(_)
ChunksOf(rep) ==
    IF rep = <<>> THEN <<>>
    ELSE (IF HasTag(Head(rep), TagD) THEN PayloadOf(Head(rep), 2) ELSE <<>>)
         \o ChunksOf(Tail(rep))

\* the first exec on the Session has returned
AfterFirstCall == state = "Ready" /\ ncalls = 1

---------------------------------------------------------------------------
\* C1: when the response to a call is zero or more D lines, possibly with S
\* and # lines among them, and then an OK line, exec returns success, its
\* data is the concatenation of the chunks in arrival order and its message
\* is what follows "OK" on the terminal line.
C1_DataThenOk ==
    (/\ AfterFirstCall
     /\ reply # <<>>
     /\ HasTag(reply[Len(reply)], TagOK)
     /\ \A i \in 1..(Len(reply) - 1) : IsInterim(reply[i]))
    => /\ res.kind = "Ok"
       /\ res.data = ChunksOf(SubSeq(reply, 1, Len(reply) - 1))
       /\ res.msg = PayloadOf(reply[Len(reply)], 2)

\* two chunks, in order, and the message of the OK line
C1_Witness ==
    /\ AfterFirstCall
    /\ reply = <<LnDa, LnDb, LnOKa>>
    /\ res = OkResult(<<32, 97>>, <<97, 98>>)

\* C2: a terminal line "ERR <m>" makes the call fail with the message <m>,
\* the bytes after the 4-character tag "ERR ".
C2_ErrMessage ==
    (/\ AfterFirstCall
     /\ took # <<>>
     /\ HasTag(took[Len(took)], TagERR))
    => /\ res.kind = "Other"
       /\ res.msg = PayloadOf(took[Len(took)], 4)

\* C3: when the handshake of new fails, nothing is written to the channel.
C3_NoRequestAfterFailedHandshake ==
    (ctor = "new" /\ state = "Failed") => out = <<>>

\* C4: a Session is Ready, and a request is written on it, only after the
\* handshake has read the greeting and seen a Success line.
C4_ReadyOnlyAfterHandshake ==
    /\ state = "Ready" => (hs.done /\ hs.ret.kind = "Ok")
    /\ out # <<>> => hs.done

\* C5: construction by new succeeds only on a greeting of exactly one
\* Success line, with no line before it.
C5_GreetingIsOneSuccessLine ==
    (ctor = "new" /\ state \in {"Ready", "Closed"})
    => (Len(hs.took) = 1 /\ HasTag(hs.took[1], TagOK))

\* C6, as stated: a response with an INQUIRE line at any position makes the
\* call fail with a protocol violation, never succeed.
C6_InquireAnywhere ==
    (/\ AfterFirstCall
     /\ \E i \in 1..Len(reply) : HasTag(reply[i], TagINQUIRE))
    => (res.kind = "Other" /\ res.at \in {"INQUIRE", "other"})

\* C6, amended: a response with an INQUIRE line that no OK line, no ERR line
\* and no read error precedes makes the call fail with a protocol violation,
\* never succeed, whatever follows the INQUIRE line.
C6_InquireBeforeTerminal ==
    (/\ AfterFirstCall
     /\ \E i \in 1..Len(reply) :
          /\ HasTag(reply[i], TagINQUIRE)
          /\ \A j \in 1..(i - 1) :
               ~reply[j].err /\ ~HasTag(reply[j], TagOK) /\ ~HasTag(reply[j], TagERR))
    => (res.kind = "Other" /\ res.at \in {"INQUIRE", "other"})

\* an INQUIRE line after a D line and before an OK line
C6_Witness ==
    /\ AfterFirstCall
    /\ reply = <<LnDa, LnINQ, LnOK>>
    /\ res = OtherError(MsgInquire, "INQUIRE")
    /\ inp = <<LnOK>>

---------------------------------------------------------------------------
(* The wire form of a request, written out byte by byte. *)

\* the name holds no space, CR or LF
CleanName(name) == \A i \in 1..Len(name) : name[i] \notin {32, 13, 10}

\* the escaped form of one byte: "%0D", "%0A", "%25", "%20", or the byte
EscapedByte(x) ==
    CASE x = 13 -> <<37, 48, 68>>
      [] x = 10 -> <<37, 48, 65>>
      [] x = 37 -> <<37, 50, 53>>
      [] x = 32 -> <<37, 50, 48>>
      [] OTHER -> <<x>>

\* " <escaped-arg>" for every argument
WireArgs(args) ==
    Flatten([i \in 1..Len(args) |->
                <<32>> \o Flatten([k \in 1..Len(args[i]) |-> EscapedByte(args[i][k])])])

\* the value of a hexadecimal digit, -1 for any other byte
from_hex(c) ==
    IF c \in 48..57 THEN c - 48
    ELSE IF c \in 65..70 THEN c - 55
    ELSE IF c \in 97..102 THEN c - 87
    ELSE -1

\* percent-decoding: '%' and two hexadecimal digits give one byte, every
\* other byte is itself
RECURSIVE percent_decode(_)
percent_decode(s) ==
    IF s = <<>> THEN <<>>
    ELSE IF Head(s) = 37 /\ Len(s) >= 3 /\ from_hex(s[2]) >= 0 /\ from_hex(s[3]) >= 0
         THEN <<16 * from_hex(s[2]) + from_hex(s[3])>> \o percent_decode(SubSeq(s, 4, Len(s)))
         ELSE <<Head(s)>> \o percent_decode(Tail(s))

\* the tokens of s between the bytes b
RECURSIVE SplitOn(_, _)
SplitOn(s, x) ==
    IF \A i \in 1..Len(s) : s[i] # x THEN <<s>>
    ELSE LET k == CHOOSE i \in 1..Len(s) : s[i] = x /\ \A j \in 1..(i - 1) : s[j] # x
         IN  <<SubSeq(s, 1, k - 1)>> \o SplitOn(SubSeq(s, k + 1, Len(s)), x)

---------------------------------------------------------------------------
\* C9: teardown, in whatever state the Session is, tries to send BYE once
\* and hands no error on: the caller holds after it what it held before,
\* whatever the write, the flush or the peer's answer to BYE produced.  When
\* new drops the client after a failed handshake, the caller gets the
\* handshake's error, not the error of BYE.
C9_TeardownSilent ==
    [][/\ (state = "Ready" /\ state' = "Closed")
          => /\ res' = res
             /\ req' \in {<<>>, CmdBye, CmdBye \o <<10>>}
             /\ out' = out \o req'
       /\ (state = "Init" /\ state' = "Failed" /\ ctor' = "new")
          => /\ res' = hs'.ret
             /\ req' \in {<<>>, CmdBye, CmdBye \o <<10>>}
             /\ out' = out \o req']_vars

\* a Session closed after a RemoteFailure, BYE answered by an unsupported
\* line: the caller still holds the RemoteFailure
C9_Witness ==
    /\ state = "Closed"
    /\ res.at = "ERR"
    /\ req = CmdBye \o <<10>>
    /\ took = <<LnX>>

\* C10: on a Session built by new, with a peer whose greeting and replies
\* are zero or more D, S and # lines and one terminal line, and no failed
\* write, every call reads exactly the reply to its own request and leaves
\* nothing unread: its result is the result of parsing that reply alone.
C10_CallReadsItsOwnReply ==
    (ctor = "new" /\ state = "Ready" /\ ncalls >= 1 /\ polite)
    => /\ took = reply
       /\ inp = <<>>
       /\ res.at \in {"OK", "ERR", "unit"}
       /\ res = (IF lastCmd.name = CmdOption
                 THEN map_unit(wait_response(reply).ret)
                 ELSE wait_response(reply).ret)

\* a successful exec right after one that ended in a RemoteFailure
C10_Witness ==
    /\ ctor = "new" /\ state = "Ready" /\ ncalls = 2 /\ polite
    /\ prev.at = "ERR"
    /\ reply = <<LnDa, LnOKa>>
    /\ res = OkResult(<<32, 97>>, <<97>>)

---------------------------------------------------------------------------
\* C11: the error returned for a well-formed ERR line has a kind different
\* from the kind of the error returned for an unsupported line or an INQUIRE
\* line, and from the kind of a transport failure: here for two calls in a
\* row on one Session, the first failing in one of those ways and the
\* second with a RemoteFailure.
C11_RemoteFailureHasItsOwnKind ==
    (/\ state = "Ready"
     /\ ncalls = 2
     /\ res.at = "ERR"
     /\ prev.at \in {"INQUIRE", "other", "read", "write", "newline", "flush"})
    => res.kind # prev.kind

---------------------------------------------------------------------------
\* C13: when the call ends at a line made of "OK" and a remainder r, the
\* result is a success whose message is r, byte for byte: the empty string
\* for a bare "OK", and the leading space kept for "OK a".
C13_OkMessageVerbatim ==
    (/\ AfterFirstCall
     /\ took # <<>>
     /\ HasTag(took[Len(took)], TagOK))
    => /\ res.kind = "Ok"
       /\ res.msg = PayloadOf(took[Len(took)], 2)
       /\ (took[Len(took)] = LnOK => res.msg = <<>>)

\* "OK a" gives the message " a"
C13_Witness ==
    /\ AfterFirstCall
    /\ reply = <<LnOKa>>
    /\ took = <<LnOKa>>
    /\ res = OkResult(<<32, 97>>, <<>>)

---------------------------------------------------------------------------
\* C14: a request (the BYE of teardown included) is written only when every
\* request written earlier on the Session has had its terminal line
\* consumed: no step writes to the channel while a request is unsettled.
\* Stated for the Sessions built by new, whose greeting the handshake has
\* consumed, and a peer that has not closed the channel.
C14_OneRequestOutstanding ==
    [][(ctor' = "new" /\ ~eof /\ out' # out) => (1..nreq) \ settled = {}]_vars

---------------------------------------------------------------------------
\* C15: in every exec (and option) the command is written, then the line
\* feed, then the writer is flushed, then the response is read.  When a
\* write or the flush fails the call returns a transport failure and reads
\* nothing: no event is consumed and the unread input is what it was.  When
\* anything is read, the whole request line has been written and flushed.
C15_WriteFlushThenRead ==
    [][(ncalls' = ncalls + 1)
       => LET command == exec_cmd(lastCmd'.name, lastCmd'.args)
          IN  /\ wout' # "ok"
                 => /\ res'.kind = "IoError"
                    /\ took' = <<>>
                    /\ ~hitEof'
                    /\ inp' = inp
              /\ (took' # <<>> \/ hitEof')
                 => /\ wout' = "ok"
                    /\ req' = command \o <<10>>
              /\ wout' = "write" => req' = <<>>
              /\ wout' = "newline" => req' = command
              /\ wout' \in {"flush", "ok"} => req' = command \o <<10>>
              /\ out' = out \o req']_vars

\* the flush fails on a Session whose greeting is still unread: the request
\* line is on the wire, nothing has been read
C15_Witness ==
    /\ state = "Ready" /\ ncalls = 1
    /\ ctor = "from_child"
    /\ wout = "flush"
    /\ res = IoError("flush")
    /\ req = CmdGetPassphrase \o <<10>>
    /\ took = <<>>
    /\ inp = <<LnOK>>

---------------------------------------------------------------------------
\* C16: one call consumes the unread lines up to and including the first OK
\* or ERR line and none after it: what it consumed and what it left unread
\* are together the input as it was, no consumed line but the last is an OK
\* or ERR line, and the data of a success is made of the chunks of the D
\* lines this call consumed, nothing from an earlier call or from a line
\* after the terminal one.
C16_StopsAtFirstTerminal ==
    [][(ncalls' = ncalls + 1 /\ wout' = "ok")
       => /\ inp \o reply' = took' \o inp'
          /\ \A i \in 1..(Len(took') - 1) :
               ~HasTag(took'[i], TagOK) /\ ~HasTag(took'[i], TagERR)
          /\ res'.at = "OK"
             => /\ HasTag(took'[Len(took')], TagOK)
                /\ res'.data = ChunksOf(took')
          /\ res'.at = "ERR" => HasTag(took'[Len(took')], TagERR)]_vars

\* the call before returned the data "a"; this one, answered by two OK
\* lines, returns no data and leaves the second OK line unread
C16_Witness ==
    /\ ctor = "new" /\ state = "Ready" /\ ncalls = 2
    /\ prev = OkResult(<<32, 97>>, <<97>>)
    /\ reply = <<LnOK, LnOK>>
    /\ took = <<LnOK>>
    /\ inp = <<LnOK>>
    /\ res = OkResult(<<>>, <<>>)

---------------------------------------------------------------------------
\* the reply without its S and # lines
RECURSIVE WithoutStatus(_)
WithoutStatus(rep) ==
    IF rep = <<>> THEN <<>>
    ELSE (IF HasTag(Head(rep), TagS) \/ HasTag(Head(rep), TagHash)
          THEN <<>> ELSE <<Head(rep)>>) \o WithoutStatus(Tail(rep))

\* C17: the S and # lines of a response have no effect on the outcome: the
\* call returns what it would return for the same response with every S and
\* # line taken out (success or failure, message, data).
C17_StatusLinesHaveNoEffect ==
    AfterFirstCall => res = wait_response(WithoutStatus(reply)).ret

\* a status line between a D line and the OK line
C17_Witness ==
    /\ AfterFirstCall
    /\ reply = <<LnDa, LnS, LnOKa>>
    /\ WithoutStatus(reply) = <<LnDa, LnOKa>>
    /\ res = OkResult(<<32, 97>>, <<97>>)

---------------------------------------------------------------------------
\* C18: a read error ends the call at once with a transport failure: when
\* the first read error of the response comes after D, S and # lines only,
\* the call returns the I/O error, without any data, having consumed the
\* events up to the error and none after it.
C18_ReadErrorEndsCall ==
    AfterFirstCall
    => \A i \in 1..Len(reply) :
         (/\ reply[i].err
          /\ \A j \in 1..(i - 1) : IsInterim(reply[j]))
         => /\ res.kind = "IoError"
            /\ res.at = "read"
            /\ res.data = <<>>
            /\ res.msg = <<>>
            /\ took = SubSeq(reply, 1, i)
            /\ inp = SubSeq(reply, i + 1, Len(reply))

\* a read error after a D line and before an OK line
C18_Witness ==
    /\ AfterFirstCall
    /\ reply = <<LnDa, ReadError, LnOK>>
    /\ res = IoError("read")
    /\ inp = <<LnOK>>

\* C19: when the peer closes the channel before any terminal line, after no
\* line at all or after D, S and # lines, the call ends: it reads the end of
\* file once and returns an error, never a success.
C19_EofEndsCall ==
    (AfterFirstCall /\ \A i \in 1..Len(reply) : IsInterim(reply[i]))
    => /\ hitEof
       /\ took = reply
       /\ res.kind = "Other"
       /\ res.at = "other"

\* the peer closes after a D line and a status line
C19_Witness ==
    /\ AfterFirstCall
    /\ reply = <<LnDa, LnS>>
    /\ hitEof
    /\ res = OtherError(MsgUnsupported, "other")

---------------------------------------------------------------------------
\* the text without the white space a hex decoder skips
HexText(s) == SelectSeq(s, LAMBDA c : c \notin {32, 13, 10, 9})

\* an even number of hex digits
IsHexText(s) == Len(s) % 2 = 0 /\ \A i \in 1..Len(s) : from_hex(s[i]) >= 0

\* the bytes a text of hex digits stands for, two digits a byte
HexBytes(s) ==
    [i \in 1..(Len(s) \div 2) |-> 16 * from_hex(s[2 * i - 1]) + from_hex(s[2 * i])]

\* the last line the call consumed is an OK line
EndedInOk == AfterFirstCall /\ took # <<>> /\ HasTag(took[Len(took)], TagOK)

\* C12 as stated: for a reply of D lines of hex digits followed by an OK
\* line, get_passphrase returns the hex-decoding of the accumulated data,
\* whatever the message of the OK line.
C12_PassphraseFromData ==
    (/\ EndedInOk
     /\ \A i \in 1..(Len(took) - 1) : HasTag(took[i], TagD)
     /\ IsHexText(HexText(ChunksOf(took))))
    => res = PassResult(HexBytes(HexText(ChunksOf(took))))

\* C12, amended: for a reply of D, S and # lines followed by an OK line,
\* get_passphrase returns the hex-decoding of the message of the OK line,
\* white space skipped, and InvalidPassword when that message is not an even
\* number of hex digits; its result does not depend on the D lines.
C12_PassphraseFromOkMessage ==
    EndedInOk
    => LET m == HexText(PayloadOf(took[Len(took)], 2))
       IN  res = IF IsHexText(m) THEN PassResult(HexBytes(m)) ELSE InvalidPassword

\* "D 68656c6c6f" then "OK 6869" gives the bytes of "hi"
C12_Witness ==
    /\ AfterFirstCall
    /\ reply = <<LnDhello, LnOKhi>>
    /\ took = reply
    /\ res = PassResult(<<104, 105>>)

============================================================================
